---- MODULE Spec2Model ----
(***************************************************************************)
(* NHL Edge Finder (src/app.py): goalie-name reconciliation, Vegas-line    *)
(* matching and the Streamlit script run (main) with its session state.    *)
(*                                                                         *)
(* Goal amounts (GSAx, ratings, totals, lines, thresholds) are integers in  *)
(* thousandths of a goal, so 6.2 is 6200 and -0.40 is -400.                *)
(***************************************************************************)
EXTENDS Integers, Sequences, FiniteSets, TLC

VARIABLES
    session_state,   \* st.session_state: a function from the keys set so far
    widgets,         \* values of the keyed per-game widgets rendered last run
    edge_threshold,  \* sidebar slider "Min Edge to Bet"
    odds_api_key,    \* sidebar text input
    load_btn,        \* st.button value of the latest script run
    games_fetched,   \* get_schedule's result in the latest run (<<>> if not called)
    calls,           \* data functions main invoked in the latest script run
    notice,          \* st.error text of the LOGIC block in the latest run
    rendered,        \* per-game output of the latest script run
    crashed,         \* the latest script run ended in an uncaught exception
    starters_dict,   \* reconcile_starters: argument
    raw_goalies,     \* reconcile_starters: argument
    final_starters,  \* reconcile_starters: first component of the result
    final_goalie_db, \* reconcile_starters: second component of the result
    home_team_name,  \* match_vegas_odds: argument
    odds_map,        \* match_vegas_odds: argument
    auto_line,       \* match_vegas_odds: result
    pc               \* "idle", or position of a function application

vars == <<session_state, widgets, edge_threshold, odds_api_key, load_btn,
          games_fetched, calls, notice, rendered, crashed, starters_dict, raw_goalies,
          final_starters, final_goalie_db, home_team_name, odds_map,
          auto_line, pc>>

mainVars == <<session_state, widgets, edge_threshold, odds_api_key, load_btn,
              games_fetched, calls, notice, rendered, crashed>>
reconcileVars == <<starters_dict, raw_goalies, final_starters, final_goalie_db>>
oddsVars == <<home_team_name, odds_map, auto_line>>

(***************************************************************************)
(* Strings                                                                 *)
(***************************************************************************)
AverageGoalie     == "Average Goalie"
BackupRookie      == "Backup/Rookie"
Swayman           == "Swayman"
Swaymen           == "Swaymen"
Sway              == "Sway"
Samsonov          == "Samsonov"
Saros             == "Saros"
NewYork           == "New York"
Boston            == "Boston"
Toronto           == "Toronto"
StLouis           == "St. Louis"
BostonBruins      == "Boston Bruins"
TorontoMapleLeafs == "Toronto Maple Leafs"
StLouisBlues      == "St Louis Blues"

GoalieStrings == {AverageGoalie, BackupRookie, Swayman, Swaymen, Sway, Samsonov, Saros}
TeamStrings == {Boston, Toronto, StLouis, BostonBruins, TorontoMapleLeafs, StLouisBlues}

\* list(s): the characters of each string in use
chars ==
    AverageGoalie :> <<"A","v","e","r","a","g","e"," ","G","o","a","l","i","e">> @@
    BackupRookie :> <<"B","a","c","k","u","p","/","R","o","o","k","i","e">> @@
    Swayman :> <<"S","w","a","y","m","a","n">> @@
    Swaymen :> <<"S","w","a","y","m","e","n">> @@
    Sway :> <<"S","w","a","y">> @@
    Samsonov :> <<"S","a","m","s","o","n","o","v">> @@
    Saros :> <<"S","a","r","o","s">> @@
    NewYork :> <<"N","e","w"," ","Y","o","r","k">> @@
    Boston :> <<"B","o","s","t","o","n">> @@
    Toronto :> <<"T","o","r","o","n","t","o">> @@
    StLouis :> <<"S","t","."," ","L","o","u","i","s">> @@
    BostonBruins :> <<"B","o","s","t","o","n"," ","B","r","u","i","n","s">> @@
    TorontoMapleLeafs :> <<"T","o","r","o","n","t","o"," ","M","a","p","l","e"," ","L","e","a","f","s">> @@
    StLouisBlues :> <<"S","t"," ","L","o","u","i","s"," ","B","l","u","e","s">>

\* The characters in use, in code-point order (Python compares str by code point).
CodeOrder ==
    <<" ", ".", "/", "A", "B", "G", "L", "M", "N", "R", "S", "T",
      "Y", "a", "b", "c", "e", "f", "g", "i", "k", "l", "m", "n", "o", "p",
      "r", "s", "t", "u", "v", "w", "y">>

Ord(c) == CHOOSE i \in 1..Len(CodeOrder) : CodeOrder[i] = c

\* a < b on the character lists of two Python str
StrLess(a, b) ==
    \E k \in 1..Len(b) :
        /\ k - 1 <= Len(a)
        /\ \A m \in 1..(k - 1) : a[m] = b[m]
        /\ \/ Len(a) = k - 1
           \/ Ord(a[k]) < Ord(b[k])

\* the position of each string in str order, tabulated once
\* (f @@ <<>> is f; it makes TLC store the function as a table)
StrRank ==
    [n \in DOMAIN chars |->
        Cardinality({m \in DOMAIN chars : StrLess(chars[m], chars[n])})] @@ <<>>

\* a < b on Python str
NameLess(a, b) == StrRank[a] < StrRank[b]

(***************************************************************************)
(* difflib.SequenceMatcher / get_close_matches (no junk; autojunk only     *)
(* applies to sequences of 200 or more elements).  Indices are Python's:   *)
(* 0-based, half-open ranges.                                              *)
(***************************************************************************)
\* length of the common run of a[i:ahi] and b[j:bhi]
RECURSIVE MatchRun(_, _, _, _, _, _)
MatchRun(a, b, i, j, ahi, bhi) ==
    IF i >= ahi \/ j >= bhi THEN 0
    ELSE IF a[i + 1] # b[j + 1] THEN 0
    ELSE 1 + MatchRun(a, b, i + 1, j + 1, ahi, bhi)

SetMax(S) == CHOOSE x \in S : \A y \in S : y <= x
SetMin(S) == CHOOSE x \in S : \A y \in S : x <= y

\* of the blocks of greatest size, the one starting earliest in a, and of
\* those the one starting earliest in b; run[<<i, j>>] is the run at (i, j)
LongestBlock(run, alo, blo) ==
    LET bestsize == SetMax({run[p] : p \in DOMAIN run} \cup {0})
        starts == {p \in DOMAIN run : run[p] = bestsize}
        besti == SetMin({p[1] : p \in starts})
        bestj == SetMin({p[2] : p \in {q \in starts : q[1] = besti}})
    IN  IF bestsize = 0 THEN [i |-> alo, j |-> blo, k |-> 0]
        ELSE [i |-> besti, j |-> bestj, k |-> bestsize]

\* SequenceMatcher.find_longest_match(alo, ahi, blo, bhi)
find_longest_match(a, b, alo, ahi, blo, bhi) ==
    LongestBlock([p \in (alo..(ahi - 1)) \X (blo..(bhi - 1)) |->
                     MatchRun(a, b, p[1], p[2], ahi, bhi)] @@ <<>>,
                 alo, blo)

\* sum of the sizes of SequenceMatcher.get_matching_blocks: the longest block
\* m, then the blocks to its left and to its right
RECURSIVE MatchingCount(_, _, _, _, _, _), AroundBlock(_, _, _, _, _, _, _)
AroundBlock(a, b, alo, ahi, blo, bhi, m) ==
    IF m.k = 0 THEN 0
    ELSE m.k + MatchingCount(a, b, alo, m.i, blo, m.j)
             + MatchingCount(a, b, m.i + m.k, ahi, m.j + m.k, bhi)
MatchingCount(a, b, alo, ahi, blo, bhi) ==
    IF alo >= ahi \/ blo >= bhi THEN 0
    ELSE AroundBlock(a, b, alo, ahi, blo, bhi,
                     find_longest_match(a, b, alo, ahi, blo, bhi))

\* sum(triple[-1] for triple in self.get_matching_blocks())
Matches(a, b) == MatchingCount(a, b, 0, Len(a), 0, Len(b))

\* the match count and the total length of each pair of strings in use,
\* tabulated once
MatchTable ==
    [p \in (GoalieStrings \X GoalieStrings) \cup (TeamStrings \X TeamStrings) |->
        [matches |-> Matches(chars[p[1]], chars[p[2]]),
         length |-> Len(chars[p[1]]) + Len(chars[p[2]])]] @@ <<>>

\* _calculate_ratio(matches, length): 2.0 * matches / length, 1.0 when length is 0
calculate_ratio(m) ==
    IF m.length = 0 THEN [num |-> 1, den |-> 1]
    ELSE [num |-> 2 * m.matches, den |-> m.length]

\* SequenceMatcher(None, a, b).ratio()
ratio(a, b) == calculate_ratio(MatchTable[<<a, b>>])

RatioLess(r, s) == r.num * s.den < s.num * r.den
\* ratio >= tenths / 10
RatioAtLeast(r, tenths) == 10 * r.num >= tenths * r.den

Range(s) == {s[i] : i \in 1..Len(s)}

\* heapq.nlargest(1, result) over the (score, x) that reach the cutoff
BestMatch(score, tenths) ==
    LET result == {x \in DOMAIN score : RatioAtLeast(score[x], tenths)}
        Below(y, x) == \/ RatioLess(score[y], score[x])
                       \/ /\ ~RatioLess(score[x], score[y])
                          /\ (y = x \/ NameLess(y, x))
    IN  IF result = {} THEN <<>>
        ELSE <<CHOOSE x \in result : \A y \in result : Below(y, x)>>

\* difflib.get_close_matches(word, possibilities, n=1, cutoff=tenths/10)
get_close_matches(word, possibilities, tenths) ==
    BestMatch([x \in Range(possibilities) |-> ratio(x, word)] @@ <<>>, tenths)

(***************************************************************************)
(* pandas: a DataFrame is its row list, plus whether it has any columns    *)
(* (pd.DataFrame([]) has none; goalie_df['Name'] then raises KeyError).    *)
(***************************************************************************)
\* a Python list given as a function on 1..n (s \o <<>> is s, stored as a tuple)
List(s) == s \o <<>>

DataFrame(rows) == [columns |-> rows # <<>>, rows |-> rows]
EmptyWithColumns == [columns |-> TRUE, rows |-> <<>>]
empty(df) == Len(df.rows) = 0
\* the rows selected by goalie_df['Name'] == n
RowsNamed(df, n) == {i \in 1..Len(df.rows) : df.rows[i].Name = n}
NameList(df) == List([i \in 1..Len(df.rows) |-> df.rows[i].Name])

\* the rows at the indices of keep, in their order
RowsAt(rows, keep) ==
    List([k \in 1..Cardinality(keep) |->
            rows[CHOOSE i \in keep : Cardinality({j \in keep : j < i}) = k - 1]])

\* variant: duplicates decided on Team instead of Name
drop_duplicates_Team(rows) ==
    RowsAt(rows, {i \in 1..Len(rows) : \A j \in 1..(i - 1) : rows[j].Team # rows[i].Team})
\* DataFrame.drop_duplicates(subset=['Name']): keeps the first row of each Name
drop_duplicates(rows) ==
    RowsAt(rows, {i \in 1..Len(rows) : \A j \in 1..(i - 1) : rows[j].Name # rows[i].Name})

\* DataFrame.sort_values('Name')
sort_values(rows) ==
    LET Before(j, i) == \/ NameLess(rows[j].Name, rows[i].Name)
                        \/ (rows[j].Name = rows[i].Name /\ j < i)
        rank == List([i \in 1..Len(rows) |->
                        Cardinality({j \in 1..Len(rows) : Before(j, i)})])
    IN  List([k \in 1..Len(rows) |-> rows[CHOOSE i \in 1..Len(rows) : rank[i] = k - 1]])

(***************************************************************************)
(* reconcile_starters                                                      *)
(***************************************************************************)
\* the "Generic Fallbacks" rows
Fallbacks ==
    << [Name |-> AverageGoalie, Team |-> "NHL", GSAx |-> 0],
       [Name |-> BackupRookie, Team |-> "NHL", GSAx |-> -400] >>

\* variant: cutoff 0.5
CloseGoalieMatches_Loose(scraped_name, official_names) ==
    get_close_matches(scraped_name, official_names, 5)
\* difflib.get_close_matches(scraped_name, official_names, n=1, cutoff=0.6)
CloseGoalieMatches(scraped_name, official_names) ==
    get_close_matches(scraped_name, official_names, 6)

\* one iteration of the loop over starters_dict.items(): the name assigned to
\* the team, and whether a row is appended to new_rows; matches is the result
\* of get_close_matches
Resolution(scraped_name, official_names, matches) ==
    IF scraped_name \in Range(official_names)
    THEN [name |-> scraped_name, new |-> FALSE]
    ELSE IF matches # <<>>
    THEN [name |-> matches[1], new |-> FALSE]
    ELSE [name |-> scraped_name, new |-> TRUE]

ResolveName(scraped_name, official_names) ==
    Resolution(scraped_name, official_names,
               CloseGoalieMatches(scraped_name, official_names))

\* what the function returns once the loop has run; res[i] is the resolution
\* of the i-th item
Reconciled(sd, goalie_df, res) ==
    LET final == List([i \in 1..Len(sd) |-> [team |-> sd[i].team, name |-> res[i].name]])
        new_rows == RowsAt([i \in 1..Len(sd) |->
                               [Name |-> sd[i].name, Team |-> sd[i].team, GSAx |-> 0]],
                           {i \in 1..Len(sd) : res[i].new})
        concat == goalie_df.rows \o new_rows \o Fallbacks
    IN  [final_starters |-> final,
         goalie_df |-> DataFrame(sort_values(drop_duplicates(concat)))]

\* official_names = goalie_df['Name'].tolist() and the loop
ResolveAll(sd, official_names) ==
    List([i \in 1..Len(sd) |-> ResolveName(sd[i].name, official_names)])

\* starters_dict is the sequence of its items, in dict order (distinct teams)
reconcile_starters(sd, goalie_df) ==
    IF empty(goalie_df) THEN [final_starters |-> sd, goalie_df |-> goalie_df]
    ELSE Reconciled(sd, goalie_df, ResolveAll(sd, NameList(goalie_df)))

(***************************************************************************)
(* match_vegas_odds; odds_map is a function from its keys to their lines   *)
(***************************************************************************)
DefaultLine == 6500

\* list(odds_map.keys())
KeyList(om) ==
    CHOOSE s \in [1..Cardinality(DOMAIN om) -> DOMAIN om] : Range(s) = DOMAIN om

\* variant: cutoff 0.6
CloseTeamMatches_Strict(name, keys) == get_close_matches(name, keys, 6)
\* difflib.get_close_matches(home_team_name, keys, n=1, cutoff=0.5)
CloseTeamMatches(name, keys) == get_close_matches(name, keys, 5)

\* the line under the fuzzy match, or the default
MatchedLine(om, matches) ==
    IF matches # <<>> THEN om[matches[1]] ELSE DefaultLine

match_vegas_odds(name, om) ==
    IF DOMAIN om = {} THEN DefaultLine
    ELSE IF name \in DOMAIN om THEN om[name]
    ELSE MatchedLine(om, CloseTeamMatches(name, KeyList(om)))

(***************************************************************************)
(* main: the LOGIC block                                                   *)
(***************************************************************************)
LEAGUE_AVG_TOTAL == 6200
DefaultThreshold == 500

\* st.session_state.get(key, default)
Get(ss, key, default) == IF key \in DOMAIN ss THEN ss[key] ELSE default

\* get_simulated_ratings(active_teams): one row per team; draw stands for the
\* random numbers
get_simulated_ratings(active_teams, draw) == [t \in active_teams |-> draw[t]]

AllCalls ==
    {"get_schedule", "get_projected_starters", "get_active_goalies_db",
     "reconcile_starters", "get_simulated_ratings"}

\* variant: data_loaded is left as it was
LogicNoGames_KeepsLoaded(ss) ==
    [session |-> ss, calls |-> {"get_schedule"}, notice |-> "No games found."]
\* "if not games:" branch
LogicNoGames(ss) ==
    [session |-> ("data_loaded" :> FALSE) @@ ss,
     calls |-> {"get_schedule"}, notice |-> "No games found."]

\* "else:" branch: fetch, reconcile, rate, store in session state
StoreSession(api_key, fetch, r) ==
    LET active_teams == {fetch.games[i].home_team : i \in 1..Len(fetch.games)}
                        \cup {fetch.games[i].away_team : i \in 1..Len(fetch.games)}
        ratings == get_simulated_ratings(active_teams, fetch.draw)
        vegas_odds == IF api_key # "" THEN fetch.odds ELSE <<>>
    IN  [session |-> [games |-> fetch.games,
                      starters |-> r.final_starters,
                      goalie_db |-> r.goalie_df,
                      ratings |-> ratings,
                      vegas_odds |-> vegas_odds,
                      data_loaded |-> TRUE],
         calls |-> AllCalls \cup (IF api_key # "" THEN {"get_vegas_odds"} ELSE {}),
         notice |-> ""]

LogicLoad(api_key, fetch) ==
    StoreSession(api_key, fetch,
                 reconcile_starters(fetch.starters_dict, fetch.raw_goalies))

\* variant: the block runs whether or not the button was pressed
Logic_Always(btn, ss, api_key, fetch) ==
    IF fetch.games = <<>> THEN LogicNoGames(ss) ELSE LogicLoad(api_key, fetch)
\* the "if load_btn:" block: the session state it leaves, the data functions
\* it invokes and its st.error text.  fetch holds what the fetchers return
\* if they are called.
Logic(btn, ss, api_key, fetch) ==
    IF ~btn THEN [session |-> ss, calls |-> {}, notice |-> ""]
    ELSE IF fetch.games = <<>> THEN LogicNoGames(ss)
    ELSE LogicLoad(api_key, fetch)

(***************************************************************************)
(* main: the DASHBOARD block                                               *)
(***************************************************************************)
\* starters.get(team, "Average Goalie")
StarterOf(starters, team) ==
    IF \E i \in 1..Len(starters) : starters[i].team = team
    THEN starters[CHOOSE i \in 1..Len(starters) : starters[i].team = team].name
    ELSE AverageGoalie

\* list.index(x), 0-based; -1 stands for ValueError
index(names, x) ==
    IF x \in Range(names) THEN SetMin({i \in 1..Len(names) : names[i] = x}) - 1 ELSE -1

\* try: idx = goalie_names.index(start) / except: idx = goalie_names.index("Average Goalie")
DefaultIndex(names, start) ==
    IF index(names, start) >= 0 THEN index(names, start) ELSE index(names, AverageGoalie)

get_gsax(goalie_name, goalie_df) ==
    IF RowsNamed(goalie_df, goalie_name) # {}
    THEN goalie_df.rows[SetMin(RowsNamed(goalie_df, goalie_name))].GSAx
    ELSE 0

\* "1. Base Math": the except branch is taken when a team has no rating row
BaseTotal(ratings, home, away) ==
    IF home \in DOMAIN ratings /\ away \in DOMAIN ratings
    THEN (ratings[home].off_rating + ratings[away].def_rating) \div 2
         + (ratings[away].off_rating + ratings[home].def_rating) \div 2
    ELSE LEAGUE_AVG_TOTAL

abs(x) == IF x < 0 THEN -x ELSE x

\* variant: abs_edge > edge_threshold
Signal_Strict(edge, threshold) ==
    IF abs(edge) > threshold
    THEN (IF edge > 0 THEN "OVER" ELSE "UNDER")
    ELSE "NO_VALUE"
\* "Column 4: The Decision (Edge)": the comparison is on the computed edge
Signal(edge, threshold) ==
    IF abs(edge) >= threshold
    THEN (IF edge > 0 THEN "OVER" ELSE "UNDER")
    ELSE "NO_VALUE"

NoWidgets == [a |-> <<>>, h |-> <<>>, v |-> <<>>]

\* What a keyed widget returns: its default when it was not on the page in
\* the previous run; the user's value when its parameters are the same as
\* then.  When they differ, Streamlit releases that derive the widget
\* identity from the parameters return the default, releases that derive it
\* from the key alone (keyed) keep a value that is still valid.
WidgetValue(stored, gid, default, same_params, still_valid, keyed) ==
    IF gid \notin DOMAIN stored THEN default
    ELSE IF same_params THEN stored[gid]
    ELSE IF keyed /\ still_valid THEN stored[gid]
    ELSE default

\* the row of gid in the previous run's page, if any
PrevRows(prev, gid) == {i \in 1..Len(prev) : prev[i].gid = gid}

\* one iteration of "for game in games", given the line of match_vegas_odds:
\* ok is FALSE when it raises
GameRow(game, ss, line, prev, prev_names, w, threshold, keyed) ==
    LET goalie_db == ss.goalie_db
        goalie_names == NameList(goalie_db)
        home == game.home_team
        away == game.away_team
        gid == game.home_id
        base_total == BaseTotal(ss.ratings, home, away)
        a_start == StarterOf(ss.starters, away)
        h_start == StarterOf(ss.starters, home)
        a_idx == DefaultIndex(goalie_names, a_start)
        h_idx == DefaultIndex(goalie_names, h_start)
        old == prev[CHOOSE i \in PrevRows(prev, gid) : TRUE]
        same_page == /\ PrevRows(prev, gid) # {}
                     /\ old.away = away /\ old.home = home
                     /\ prev_names = goalie_names
        sel_a_goalie == WidgetValue(w.a, gid, goalie_names[a_idx + 1],
                                    same_page /\ old.a_idx = a_idx,
                                    w.a[gid] \in Range(goalie_names), keyed)
        sel_h_goalie == WidgetValue(w.h, gid, goalie_names[h_idx + 1],
                                    same_page /\ old.h_idx = h_idx,
                                    w.h[gid] \in Range(goalie_names), keyed)
        a_gsax == get_gsax(sel_a_goalie, goalie_db)
        h_gsax == get_gsax(sel_h_goalie, goalie_db)
        my_proj == base_total - h_gsax - a_gsax
        vegas_line == WidgetValue(w.v, gid, line,
                                  PrevRows(prev, gid) # {} /\ old.auto_line = line,
                                  TRUE, keyed)
        edge == my_proj - vegas_line
    IN  IF a_idx < 0 \/ h_idx < 0 THEN [ok |-> FALSE]
        ELSE [ok |-> TRUE,
              row |-> [gid |-> gid, away |-> away, home |-> home,
                       base_total |-> base_total, auto_line |-> line,
                       a_idx |-> a_idx, h_idx |-> h_idx,
                       sel_a_goalie |-> sel_a_goalie, sel_h_goalie |-> sel_h_goalie,
                       a_gsax |-> a_gsax, h_gsax |-> h_gsax,
                       my_proj |-> my_proj, vegas_line |-> vegas_line,
                       edge |-> edge, threshold |-> threshold,
                       signal |-> Signal(edge, threshold)]]

RenderGame(game, ss, prev, prev_names, w, threshold, keyed) ==
    GameRow(game, ss, match_vegas_odds(game.home_name, ss.vegas_odds),
            prev, prev_names, w, threshold, keyed)

\* what the page shows, given the outcome out[i] of each iteration: the rows
\* before the first iteration that raises
Page(out) ==
    LET failed == {i \in 1..Len(out) : ~out[i].ok}
        shown == IF failed = {} THEN Len(out) ELSE SetMin(failed) - 1
        rows == List([i \in 1..shown |-> out[i].row])
        gids == {rows[i].gid : i \in 1..shown}
        RowOf(g) == rows[CHOOSE i \in 1..shown : rows[i].gid = g]
    IN  [rendered |-> rows,
         crashed |-> failed # {},
         widgets |-> [a |-> [g \in gids |-> RowOf(g).sel_a_goalie] @@ <<>>,
                      h |-> [g \in gids |-> RowOf(g).sel_h_goalie] @@ <<>>,
                      v |-> [g \in gids |-> RowOf(g).vegas_line] @@ <<>>]]

\* the 'if st.session_state.get("data_loaded", False):' block: the rows shown
\* before the run ends, whether it ends in an exception, and the values of
\* the keyed widgets on the page
Dashboard(ss, prev, prev_names, w, threshold, keyed) ==
    IF ~Get(ss, "data_loaded", FALSE)
    THEN [rendered |-> <<>>, crashed |-> FALSE, widgets |-> NoWidgets]
    ELSE IF ~ss.goalie_db.columns
    THEN [rendered |-> <<>>, crashed |-> TRUE, widgets |-> NoWidgets]
    ELSE Page(List([i \in 1..Len(ss.games) |->
                       RenderGame(ss.games[i], ss, prev, prev_names, w, threshold, keyed)]))

(***************************************************************************)
(* Bounds and input pools                                                  *)
(***************************************************************************)
MaxRoster == 2      \* rows of a fetched roster
MaxStarters == 2    \* teams of a scraped starters mapping

Teams == {"BOS", "NYR", "TOR"}

\* rows get_active_goalies_db can return: Name, Team, simulated GSAx
GoalieRecords ==
    { [Name |-> Swayman,  Team |-> "BOS", GSAx |-> 750],
      [Name |-> Samsonov, Team |-> "TOR", GSAx |-> -200],
      [Name |-> Swaymen,  Team |-> "NYR", GSAx |-> 100],
      [Name |-> Swayman,  Team |-> "NYR", GSAx |-> -100] }

MaxOdds == 2        \* keys of a fetched odds mapping

SeqsUpTo(S, n) == UNION {[1..k -> S] : k \in 0..n}

\* results of get_active_goalies_db: a frame of rows, or the columns-only
\* frame of the except branch
Rosters == {DataFrame(rows) : rows \in SeqsUpTo(GoalieRecords, MaxRoster)}
              \cup {EmptyWithColumns}

ScrapedNames == {Swayman, Swaymen, Sway, Saros, BackupRookie, AverageGoalie}

\* results of get_projected_starters: items team -> name, distinct teams
StarterDicts ==
    {sd \in SeqsUpTo([team : Teams, name : ScrapedNames], MaxStarters) :
        \A i, j \in 1..Len(sd) : sd[i].team = sd[j].team => i = j}

\* placeName of a home team, as get_schedule returns it
DisplayNames == {Boston, Toronto, StLouis}
\* home_team keys and totals points, as get_vegas_odds returns them
OddsKeys == {Boston, BostonBruins, TorontoMapleLeafs, StLouisBlues}
OddsLines == {5500, 6000}

OddsMaps ==
    UNION {[K -> OddsLines] : K \in {S \in SUBSET OddsKeys : Cardinality(S) <= MaxOdds}}

(***************************************************************************)
(* Specification of reconcile_starters applied to fetched inputs           *)
(***************************************************************************)
MainIdle ==
    /\ session_state = <<>>
    /\ widgets = NoWidgets
    /\ edge_threshold = DefaultThreshold
    /\ odds_api_key = ""
    /\ load_btn = FALSE
    /\ games_fetched = <<>>
    /\ calls = {}
    /\ notice = ""
    /\ rendered = <<>>
    /\ crashed = FALSE

ReconcileIdle ==
    /\ starters_dict = <<>>
    /\ raw_goalies = EmptyWithColumns
    /\ final_starters = <<>>
    /\ final_goalie_db = EmptyWithColumns

OddsIdle ==
    /\ home_team_name = ""
    /\ odds_map = <<>>
    /\ auto_line = 0

InitReconcile ==
    /\ MainIdle
    /\ OddsIdle
    /\ starters_dict \in StarterDicts
    /\ raw_goalies \in Rosters
    /\ final_starters = <<>>
    /\ final_goalie_db = EmptyWithColumns
    /\ pc = "call"

\* final_starters, final_goalie_db = reconcile_starters(starters_dict, raw_goalies)
Reconcile ==
    /\ pc = "call"
    /\ \E r \in {reconcile_starters(starters_dict, raw_goalies)} :
           /\ final_starters' = r.final_starters
           /\ final_goalie_db' = r.goalie_df
    /\ pc' = "return"
    /\ UNCHANGED <<starters_dict, raw_goalies, mainVars, oddsVars>>

NextReconcile == Reconcile

SpecReconcile == InitReconcile /\ [][NextReconcile]_vars

(***************************************************************************)
(* Properties of reconcile_starters (under SpecReconcile)                  *)
(***************************************************************************)
Returned == pc = "return"
RawNames == Range(NameList(raw_goalies))
FinalNames == Range(NameList(final_goalie_db))
\* similarity of roster name x to scraped name n is at least 0.6
Similar(x, n) == RatioAtLeast(ratio(x, n), 6)

\* C2: every value of the returned mapping is the Name of a record of the
\* returned roster, whatever the scraped mapping and the roster (empty or not).
C2_ValuesInReturnedRoster ==
    Returned => \A i \in 1..Len(final_starters) : final_starters[i].name \in FinalNames

\* C3: the returned roster holds exactly one "Average Goalie" record, with
\* skill 0.00, and exactly one "Backup/Rookie" record, with skill -0.40.
C3_SentinelsExactlyOnce ==
    Returned =>
        \A f \in Range(Fallbacks) :
            /\ Cardinality(RowsNamed(final_goalie_db, f.Name)) = 1
            /\ \A i \in RowsNamed(final_goalie_db, f.Name) :
                   final_goalie_db.rows[i].GSAx = f.GSAx

\* C4: a team whose scraped name is below 0.6 against every roster name gets
\* exactly one new record, with the scraped name, that team and skill 0.00,
\* and the scraped name is returned for the team.
C4_UnknownSynthesized ==
    Returned =>
        \A i \in 1..Len(starters_dict) :
            (\A x \in RawNames : ~Similar(x, starters_dict[i].name)) =>
                /\ final_starters[i] = starters_dict[i]
                /\ Cardinality(RowsNamed(final_goalie_db, starters_dict[i].name)) = 1
                /\ \A k \in RowsNamed(final_goalie_db, starters_dict[i].name) :
                       final_goalie_db.rows[k] =
                           [Name |-> starters_dict[i].name,
                            Team |-> starters_dict[i].team, GSAx |-> 0]

\* the first row of the fetched roster under name n
FirstRaw(n) == raw_goalies.rows[SetMin(RowsNamed(raw_goalies, n))]

\* the scraped mapping without its i-th item
Without(sd, i) == SubSeq(sd, 1, i - 1) \o SubSeq(sd, i + 1, Len(sd))

\* C5: a scraped name equal to the name of a roster record is returned as it
\* is for its team, and the roster is not changed on its account: the returned
\* roster holds under that name the fetched record, once, and is the roster
\* the call returns for the same mapping without that team.
C5_ExactMatchKeepsNameAndRoster ==
    Returned =>
        \A i \in 1..Len(starters_dict) :
            starters_dict[i].name \in RawNames =>
                /\ final_starters[i] = starters_dict[i]
                /\ Cardinality(RowsNamed(final_goalie_db, starters_dict[i].name)) = 1
                /\ \A k \in RowsNamed(final_goalie_db, starters_dict[i].name) :
                       final_goalie_db.rows[k] = FirstRaw(starters_dict[i].name)
                /\ final_goalie_db =
                       reconcile_starters(Without(starters_dict, i), raw_goalies).goalie_df

C5_Witness ==
    /\ Returned
    /\ \E i \in 1..Len(starters_dict) :
          /\ starters_dict[i].name \in RawNames
          /\ final_starters[i].name = starters_dict[i].name
          /\ Cardinality(RowsNamed(raw_goalies, starters_dict[i].name)) = 2

\* C6: exact match, then fuzzy match, then synthesis.  A scraped name without
\* exact match and with similarity >= 0.6 to exactly one roster name resolves
\* to that roster name and gets no record of its own; a name with an exact
\* match resolves to itself; a roster name is returned for a different scraped
\* name only if their similarity is at least 0.6.
C6_ExactThenFuzzyThenNew ==
    Returned =>
        \A i \in 1..Len(starters_dict) :
            LET n == starters_dict[i].name
                close == {x \in RawNames : Similar(x, n)}
            IN  /\ final_starters[i].team = starters_dict[i].team
                /\ (n \notin RawNames /\ Cardinality(close) = 1) =>
                       /\ final_starters[i].name \in close
                       /\ \A k \in RowsNamed(final_goalie_db, n) :
                              final_goalie_db.rows[k] \in Range(Fallbacks)
                /\ n \in RawNames => final_starters[i].name = n
                /\ final_starters[i].name # n =>
                       /\ final_starters[i].name \in RawNames
                       /\ Similar(final_starters[i].name, n)

C6_Witness ==
    /\ Returned
    /\ \E i \in 1..Len(starters_dict) :
          /\ starters_dict[i].name \notin RawNames
          /\ Cardinality({x \in RawNames : Similar(x, starters_dict[i].name)}) = 1
          /\ final_starters[i].name # starters_dict[i].name
          /\ starters_dict[i].name \notin FinalNames

(***************************************************************************)
(* Specification of match_vegas_odds applied to fetched inputs             *)
(***************************************************************************)
InitOdds ==
    /\ MainIdle
    /\ ReconcileIdle
    /\ home_team_name \in DisplayNames
    /\ odds_map \in OddsMaps
    /\ auto_line = 0
    /\ pc = "call"

\* auto_line = match_vegas_odds(home_full, vegas_odds)
MatchOdds ==
    /\ pc = "call"
    /\ auto_line' = match_vegas_odds(home_team_name, odds_map)
    /\ pc' = "return"
    /\ UNCHANGED <<home_team_name, odds_map, mainVars, reconcileVars>>

NextOdds == MatchOdds

SpecOdds == InitOdds /\ [][NextOdds]_vars

\* keys whose similarity to the display name is at least 0.5
CloseKeys == {k \in DOMAIN odds_map : RatioAtLeast(ratio(k, home_team_name), 5)}
BestKeys ==
    {k \in CloseKeys :
        \A y \in CloseKeys : ~RatioLess(ratio(k, home_team_name), ratio(y, home_team_name))}

\* C10: the line is the value under the exact key when the name is a key;
\* else the value under the best fuzzy key when its similarity is >= 0.5;
\* else 6.5, also for an empty mapping; never anything but 6.5 or a value
\* of the mapping.
C10_LineResolutionOrder ==
    Returned =>
        /\ home_team_name \in DOMAIN odds_map => auto_line = odds_map[home_team_name]
        /\ (home_team_name \notin DOMAIN odds_map /\ CloseKeys # {}) =>
               auto_line \in {odds_map[k] : k \in BestKeys}
        /\ (home_team_name \notin DOMAIN odds_map /\ CloseKeys = {}) =>
               auto_line = DefaultLine
        /\ DOMAIN odds_map = {} => auto_line = DefaultLine
        /\ auto_line \in {DefaultLine} \cup {odds_map[k] : k \in DOMAIN odds_map}

C10_Witness ==
    /\ Returned
    /\ home_team_name \notin DOMAIN odds_map
    /\ \E k \in CloseKeys : ~RatioAtLeast(ratio(k, home_team_name), 6)
    /\ DOMAIN odds_map \ CloseKeys # {}
    /\ auto_line # DefaultLine

(***************************************************************************)
(* Input pools of the script run                                           *)
(***************************************************************************)
G1 == [home_team |-> "BOS", away_team |-> "NYR", home_id |-> 6, away_id |-> 3,
       home_name |-> Boston, away_name |-> NewYork]
G2 == [home_team |-> "TOR", away_team |-> "STL", home_id |-> 10, away_id |-> 19,
       home_name |-> Toronto, away_name |-> StLouis]

\* results of get_schedule
Schedules == {<<>>, <<G1>>, <<G1, G2>>}

\* results of get_projected_starters
MainStarterDicts ==
    { <<>>,
      <<[team |-> "NYR", name |-> Saros], [team |-> "BOS", name |-> Swaymen]>> }

\* results of get_active_goalies_db
MainRosters ==
    { DataFrame(<<>>), EmptyWithColumns,
      DataFrame(<< [Name |-> Swayman,  Team |-> "BOS", GSAx |-> 750],
                   [Name |-> Samsonov, Team |-> "TOR", GSAx |-> -200] >>) }

\* random numbers of get_simulated_ratings, each in [2.9, 3.4]
RatingDraws ==
    { [t \in {"BOS", "NYR", "TOR", "STL"} |-> [off_rating |-> 3000, def_rating |-> 3000]],
      ( "BOS" :> [off_rating |-> 3400, def_rating |-> 2900] @@
        "NYR" :> [off_rating |-> 3100, def_rating |-> 3200] @@
        "TOR" :> [off_rating |-> 2900, def_rating |-> 3400] @@
        "STL" :> [off_rating |-> 3300, def_rating |-> 3000] ) }

\* results of get_vegas_odds for a non-empty key
MainOdds == { <<>>, (BostonBruins :> 5500 @@ TorontoMapleLeafs :> 6000) }

NoGamesFetch ==
    [games |-> <<>>, starters_dict |-> <<>>, raw_goalies |-> EmptyWithColumns,
     draw |-> CHOOSE d \in RatingDraws : TRUE, odds |-> <<>>]

\* what the fetchers of a run can return; get_vegas_odds is only called with
\* a non-empty key
Fetches(api_key) ==
    {NoGamesFetch} \cup
    [games : Schedules \ {<<>>}, starters_dict : MainStarterDicts,
     raw_goalies : MainRosters, draw : RatingDraws,
     odds : IF api_key # "" THEN MainOdds ELSE {<<>>}]

\* what the user enters
MaxOverrides == 1   \* per-game widgets of a page the user has moved off their default
GoaliePicks == {BackupRookie}
LinePicks == {5400}
Thresholds == {500, 700}
ApiKeys == {"", "key"}

(***************************************************************************)
(* Specification of the app: script runs over the session                  *)
(***************************************************************************)
Init ==
    /\ MainIdle
    /\ ReconcileIdle
    /\ OddsIdle
    /\ pc = "idle"

\* goalie_names of the page shown by the previous run
PrevNames(ss) ==
    IF Get(ss, "data_loaded", FALSE) /\ ss.goalie_db.columns
    THEN NameList(ss.goalie_db) ELSE <<>>

\* what a run leaves and shows, given the outcome of its two blocks
RunResult(btn, fetch, logic, dash) ==
    [games_fetched |-> IF btn THEN fetch.games ELSE <<>>,
     session |-> logic.session, calls |-> logic.calls, notice |-> logic.notice,
     rendered |-> dash.rendered, crashed |-> dash.crashed, widgets |-> dash.widgets]

\* the DASHBOARD block run on the session the LOGIC block leaves
AfterLogic(btn, fetch, logic, prev, prev_names, w, threshold, keyed) ==
    RunResult(btn, fetch, logic,
              Dashboard(logic.session, prev, prev_names, w, threshold, keyed))

\* one run of the script, top to bottom
ScriptRun(btn, ss, prev, w, threshold, api_key, fetch, keyed) ==
    AfterLogic(btn, fetch, Logic(btn, ss, api_key, fetch),
               prev, PrevNames(ss), w, threshold, keyed)

main(btn, w, threshold, api_key, fetch, keyed) ==
    \E run \in {ScriptRun(btn, session_state, rendered, w, threshold, api_key, fetch, keyed)} :
        /\ load_btn' = btn
        /\ games_fetched' = run.games_fetched
        /\ session_state' = run.session
        /\ calls' = run.calls
        /\ notice' = run.notice
        /\ rendered' = run.rendered
        /\ crashed' = run.crashed
        /\ widgets' = run.widgets
        /\ edge_threshold' = threshold
        /\ odds_api_key' = api_key
        /\ UNCHANGED <<reconcileVars, oddsVars, pc>>

\* the user presses "Run Model"
RunModel ==
    \E fetch \in Fetches(odds_api_key), keyed \in (IF widgets = NoWidgets THEN {TRUE} ELSE BOOLEAN) :
        main(TRUE, widgets, edge_threshold, odds_api_key, fetch, keyed)

\* the per-game widgets of the page whose value is not their default
Overrides ==
    LET names == NameList(session_state.goalie_db)
    IN  {<<i, "a">> : i \in {k \in 1..Len(rendered) :
                        rendered[k].sel_a_goalie # names[rendered[k].a_idx + 1]}}
        \cup {<<i, "h">> : i \in {k \in 1..Len(rendered) :
                        rendered[k].sel_h_goalie # names[rendered[k].h_idx + 1]}}
        \cup {<<i, "v">> : i \in {k \in 1..Len(rendered) :
                        rendered[k].vegas_line # rendered[k].auto_line}}

\* the user picks another goalie in a dropdown of the page
ChangeGoalie ==
    /\ Cardinality(Overrides) < MaxOverrides
    /\ \/ \E g \in DOMAIN widgets.a :
         \E n \in (GoaliePicks \cap Range(NameList(session_state.goalie_db))) \ {widgets.a[g]} :
            main(FALSE, [widgets EXCEPT !.a[g] = n], edge_threshold, odds_api_key,
                 NoGamesFetch, TRUE)
       \/ \E g \in DOMAIN widgets.h :
         \E n \in (GoaliePicks \cap Range(NameList(session_state.goalie_db))) \ {widgets.h[g]} :
            main(FALSE, [widgets EXCEPT !.h[g] = n], edge_threshold, odds_api_key,
                 NoGamesFetch, TRUE)

\* the user edits a "Vegas Line" input of the page
ChangeLine ==
    /\ Cardinality(Overrides) < MaxOverrides
    /\ \E g \in DOMAIN widgets.v :
        \E l \in LinePicks \ {widgets.v[g]} :
            main(FALSE, [widgets EXCEPT !.v[g] = l], edge_threshold, odds_api_key,
                 NoGamesFetch, TRUE)

\* the user moves the "Min Edge to Bet" slider
ChangeThreshold ==
    \E t \in Thresholds \ {edge_threshold} :
        main(FALSE, widgets, t, odds_api_key, NoGamesFetch, TRUE)

\* the user edits the API key
ChangeApiKey ==
    \E k \in ApiKeys \ {odds_api_key} :
        main(FALSE, widgets, edge_threshold, k, NoGamesFetch, TRUE)

Next == RunModel \/ ChangeGoalie \/ ChangeLine \/ ChangeThreshold \/ ChangeApiKey

Spec == Init /\ [][Next]_vars

(***************************************************************************)
(* Properties of the script run (under Spec)                               *)
(***************************************************************************)
\* the latest run loaded data: button pressed, non-empty schedule
LoadedRun == load_btn /\ games_fetched # <<>>
\* the latest run found no games
NoGamesRun == load_btn /\ games_fetched = <<>>

\* the default goalie the claim promises for a team: its reconciled starter
\* when that is in the name list, otherwise "Average Goalie"
PromisedDefault(team) ==
    IF StarterOf(session_state.starters, team) \in Range(NameList(session_state.goalie_db))
    THEN StarterOf(session_state.starters, team)
    ELSE AverageGoalie

\* C1: after a loaded run, whatever the scraped mapping and the fetched roster
\* (empty included), the run does not fail, every game of the schedule is
\* rendered, and its away and home default selections are entries of the
\* roster name list: the team's reconciled starter when listed, otherwise
\* "Average Goalie".
C1_EveryGameHasValidDefault ==
    LoadedRun =>
        /\ ~crashed
        /\ Len(rendered) = Len(session_state.games)
        /\ \A i \in 1..Len(rendered) :
               LET names == NameList(session_state.goalie_db)
                   row == rendered[i]
               IN  /\ row.a_idx \in 0..(Len(names) - 1)
                   /\ row.h_idx \in 0..(Len(names) - 1)
                   /\ names[row.a_idx + 1] = PromisedDefault(row.away)
                   /\ names[row.h_idx + 1] = PromisedDefault(row.home)

\* C7: a run whose schedule fetch returns no games reports "No games found."
\* and does nothing else: of the data functions only get_schedule is invoked,
\* no game is rendered, no per-game widget is shown and the run does not
\* fail, also when the session holds data loaded by an earlier run.
C7_NoGamesReportsAndStops ==
    NoGamesRun =>
        /\ notice = "No games found."
        /\ calls = {"get_schedule"}
        /\ rendered = <<>>
        /\ widgets = NoWidgets
        /\ ~crashed

C7_Witness ==
    /\ NoGamesRun
    /\ "games" \in DOMAIN session_state
    /\ session_state.games # <<>>
    /\ notice = "No games found."

\* a rendered row is computed from the values stored in session ss
FromStored(row, ss) ==
    /\ \E i \in 1..Len(ss.games) :
          /\ ss.games[i].home_id = row.gid
          /\ row.home = ss.games[i].home_team
          /\ row.away = ss.games[i].away_team
          /\ row.auto_line = match_vegas_odds(ss.games[i].home_name, ss.vegas_odds)
    /\ row.base_total = BaseTotal(ss.ratings, row.home, row.away)
    /\ row.a_gsax = get_gsax(row.sel_a_goalie, ss.goalie_db)
    /\ row.h_gsax = get_gsax(row.sel_h_goalie, ss.goalie_db)
    /\ row.my_proj = row.base_total - row.h_gsax - row.a_gsax

\* C8: a run without the Run Model button pressed (a rerun after a change of
\* a goalie dropdown, a Vegas-line input or the threshold) invokes none of
\* the data functions, leaves the session state as it was, and every
\* projection it shows is computed from the stored values.
C8_RerunFetchesNothing ==
    [][ ~load_btn' =>
            /\ calls' = {}
            /\ session_state' = session_state
            /\ \A i \in 1..Len(rendered') : FromStored(rendered'[i], session_state) ]_vars

C8_Witness ==
    /\ ~load_btn
    /\ calls = {}
    /\ edge_threshold # DefaultThreshold
    /\ \E i \in 1..Len(rendered) : rendered[i].vegas_line # rendered[i].auto_line

\* C9: for every rendered game, edge = my_proj - vegas_line; the signal is
\* OVER when |edge| >= threshold and edge > 0, UNDER when |edge| >= threshold
\* and not edge > 0, NO_VALUE when |edge| < threshold, and nothing else; a
\* projection of 6.0 against a line of 5.4 gives OVER at threshold 0.5 and
\* NO_VALUE at threshold 0.7.
C9_EdgeSignal ==
    \A i \in 1..Len(rendered) :
        LET row == rendered[i]
            edge == row.my_proj - row.vegas_line
        IN  /\ row.edge = edge
            /\ row.threshold = edge_threshold
            /\ (abs(edge) >= edge_threshold /\ edge > 0) => row.signal = "OVER"
            /\ (abs(edge) >= edge_threshold /\ ~(edge > 0)) => row.signal = "UNDER"
            /\ abs(edge) < edge_threshold => row.signal = "NO_VALUE"
            /\ row.signal \in {"OVER", "UNDER", "NO_VALUE"}
            /\ (row.my_proj = 6000 /\ row.vegas_line = 5400 /\ edge_threshold = 500)
                   => row.signal = "OVER"
            /\ (row.my_proj = 6000 /\ row.vegas_line = 5400 /\ edge_threshold = 700)
                   => row.signal = "NO_VALUE"

C9_Witness ==
    \E i \in 1..Len(rendered) :
        /\ rendered[i].my_proj = 6000
        /\ rendered[i].vegas_line = 5400
        /\ edge_threshold = 700
        /\ rendered[i].signal = "NO_VALUE"

====
